---- MODULE Spec2Model ----
(***************************************************************************)
(* tinyIRremote for ATtiny13A - NEC, 5 buttons                             *)
(* (software/NEC_5_buttons/main.c).                                        *)
(*                                                                         *)
(* The firmware is one thread of control (main) plus an empty pin-change   *)
(* interrupt.  pc names the statement main executes next.  Every           *)
(* _delay_us / _delay_ms of the source is part of the action of the        *)
(* statement it follows; times are the programmed delays in microseconds   *)
(* (instruction overhead, which the source compensates by programming 557  *)
(* instead of 562, is not modelled).  The buttons are the environment: a   *)
(* pin may change between any two statements.                              *)
(***************************************************************************)
EXTENDS Integers, Sequences, FiniteSets, TLC

---------------------------------------------------------------------------
(* Bounds of the model (not program constants).                            *)

\* per-wake-cycle repeat-frame counter saturates here
MaxRep == 6
\* number of buttons in use where progress is checked (FairSpec)
LiveButtons == 2
\* the clock "all buttons released for ..." saturates here (microseconds)
IdleCap == 45000

---------------------------------------------------------------------------
(* Program constants.                                                      *)

ADDR == 4
KEY1 == 2
KEY2 == 0
KEY3 == 3
KEY4 == 1
KEY5 == 8

\* PORTB / PCMSK / the mask of "~PINB & 0b00111101"
ButtonMask == 61

\* GIMSK = 0b00100000: pin change interrupts on
GIMSK == 32
\* PCMSK = 0b00111101: on the button pins
PCMSK == 61
\* SREG |= 0b10000000: global interrupt enable; no statement clears it
SREG == 128

\* "Clockspeed: 1.2 MHz internal", in Hz
Clockspeed == 1200000

\* mutant: TOP as C integer arithmetic computes 1200kHz / 38kHz - 1
TOPTruncated == 1200 \div 38 - 1

\* #define TOP 31, #define DUTY 7
TOP == 31
DUTY == 7

\* OCR0A = TOP; OCR0B = DUTY;
OCR0A == TOP
OCR0B == DUTY

\* TCCR0A = 0b00100011, TCCR0B = 0b00001001: fast PWM without prescaler that
\* counts 0..OCR0A and drives OC0B high from 0 up to the match with OCR0B
CarrierPeriodTicks == OCR0A + 1
CarrierOnTicks == OCR0B + 1

\* mutant: the pause of a 1 bit is extended by half as much
Bit1PauseShort == 1120 \div 2

\* mutant: the two delays of repeatCode exchanged
RepeatDelayPreLong == 56 * 1000

\* mutant: 40 ms after the repeat frame as before it
RepeatDelayPostShort == 40 * 1000

\* mutant: the burst of a bit lasts two pulse units
NormalBurstDouble == 2 * 562

\* _delay_us arguments of the pulse macros
StartBurst == 9000
StartPause == 4500
RepeatBurst == 9000

\* mutant: the repeat marker has the pause of the start marker
RepeatPauseLong == 9000 \div 2

RepeatPause == 2250
NormalBurst == 562
NormalPause == 557
Bit1Pause == 1120
\* _delay_ms arguments, in microseconds
RepeatDelayPre == 40000
RepeatDelayPost == 56000
DebounceDelay == 1000

---------------------------------------------------------------------------
(* C integer arithmetic on the AVR (int is 16 bit, two's complement).      *)

Bit(x, k) == ((x % 65536) \div (2^k)) % 2

\* a & b for a result that is not negative
BitAnd(a, b) ==
  LET f[k \in 0..16] == IF k = 16 THEN 0
                        ELSE (2^k) * (Bit(a, k) * Bit(b, k)) + f[k + 1]
  IN f[0]

\* a | b for operands that are not negative
BitOr(a, b) == a + b - BitAnd(a, b)

\* mutant: arithmetic negation
Negate(x) == -x

\* ~x on an int
BitNot(x) == -x - 1

\* conversion of an int to uint8_t
ToU8(x) == x % 256

\* value >>= 1
Shr1(v) == v \div 2

\* mutant: the top bit of the byte is tested
Msb(v) == BitAnd(v, 128)

\* value & 1
Lsb(v) == BitAnd(v, 1)

---------------------------------------------------------------------------
VARIABLES
  pc,         \* statement main executes next
  PINB,       \* input pins; a button pulls its pin low
  DDRB,       \* data direction; bit 1 set = 38 kHz carrier on the IR LED
  buttons,    \* main's local: the debounced scan
  code,       \* sendCode's parameter
  sent,       \* arguments of the sendByte calls of the current sendCode
  value,      \* sendByte's parameter, shifted right as it is sent
  i,          \* sendByte's loop counter
  tx,         \* the line since the current frame started: <<level, us>>
  frame,      \* kind of the last frame started since the wake
  nFull,      \* full frames started since the wake
  nRep,       \* repeat frames started since the wake (saturates at MaxRep)
  sinceStart, \* microseconds since the last frame started, -1 if none
  idleFor,    \* microseconds for which all buttons have been released
  script,     \* what drives the buttons: "free" or a scripted scenario
  elapsed     \* scripted scenario: microseconds since the press

vars == <<pc, PINB, DDRB, buttons, code, sent, value, i, tx, frame, nFull,
          nRep, sinceStart, idleFor, script, elapsed>>

Min(a, b) == IF a < b THEN a ELSE b

\* ~PINB & 0b00111101
Pressed(pinb) == BitAnd(BitNot(pinb), ButtonMask)

\* the button pins of the package
ButtonPins == {0, 2, 3, 4, 5}

\* duration of the scripted hold
HoldTime == 500 * 1000

\* mutant: two case labels exchanged
KeyOfSwapped(b) ==
  CASE b = 1 -> KEY2
    [] b = 4 -> KEY1
    [] b = 8 -> KEY3
    [] b = 16 -> KEY4
    [] b = 32 -> KEY5
    [] OTHER -> -1

\* switch (buttons): the command of a single-button mask, -1 for default
KeyOf(b) ==
  CASE b = 1 -> KEY1
    [] b = 4 -> KEY2
    [] b = 8 -> KEY3
    [] b = 16 -> KEY4
    [] b = 32 -> KEY5
    [] OTHER -> -1

\* mutant: the command is sent before the address
SendCodeArgSwapped(n, c) ==
  CASE n = 1 -> c
    [] n = 2 -> ToU8(BitNot(c))
    [] n = 3 -> ToU8(ADDR)
    [] n = 4 -> ToU8(BitNot(ADDR))

\* mutant: the command is sent twice instead of with its complement
SendCodeArgRepeated(n, c) ==
  CASE n = 1 -> ToU8(ADDR)
    [] n = 2 -> ToU8(BitNot(ADDR))
    [] n = 3 -> c
    [] n = 4 -> c

\* the argument of the n-th sendByte call of sendCode(c)
SendCodeArg(n, c) ==
  CASE n = 1 -> ToU8(ADDR)
    [] n = 2 -> ToU8(BitNot(ADDR))
    [] n = 3 -> c
    [] n = 4 -> ToU8(BitNot(c))

\* IRon(): DDRB |= 0b00000010
IRon(ddrb) == BitOr(ddrb, 2)

\* mutant: IRoff clears bit 0 instead of bit 1
IRoffWrongBit(ddrb) == BitAnd(ddrb, 254)

\* IRoff(): DDRB &= 0b11111101
IRoff(ddrb) == BitAnd(ddrb, 253)

\* the line stays at level for d more microseconds (IRon/IRoff, _delay_us)
Emit(s, level, d) ==
  IF Len(s) > 0 /\ s[Len(s)][1] = level
    THEN [s EXCEPT ![Len(s)] = <<level, s[Len(s)][2] + d>>]
    ELSE Append(s, <<level, d>>)

---------------------------------------------------------------------------
(* Time.  _delay_us(d) / _delay_ms: d microseconds pass.  In the scripted  *)
(* hold the button is released when its hold time ends, which falls        *)
(* inside one of the program's delays.  start = TRUE when a frame starts   *)
(* at the statement the delay follows.                                     *)

Tick(d, start) ==
  /\ sinceStart' = IF start THEN d
                   ELSE IF sinceStart < 0 THEN sinceStart
                   ELSE sinceStart + d
  /\ IF script = "hold5_down" /\ elapsed + d >= HoldTime
       THEN /\ PINB' = ButtonMask
            /\ script' = "hold5_up"
            /\ elapsed' = HoldTime
            /\ idleFor' = Min(elapsed + d - HoldTime, IdleCap)
       ELSE /\ PINB' = PINB
            /\ script' = script
            /\ elapsed' = IF script = "hold5_down" THEN elapsed + d ELSE elapsed
            /\ idleFor' = IF Pressed(PINB) = 0 THEN Min(idleFor + d, IdleCap)
                          ELSE 0

\* a statement that takes no modelled time
NoTick == UNCHANGED <<PINB, sinceStart, idleFor, script, elapsed>>

---------------------------------------------------------------------------
Init ==
  /\ pc = "sleep_mode"
  /\ PINB = ButtonMask
  /\ DDRB = 0
  /\ buttons = 0
  /\ code = 0
  /\ sent = <<>>
  /\ value = 0
  /\ i = 0
  /\ tx = <<>>
  /\ frame = "none"
  /\ nFull = 0
  /\ nRep = 0
  /\ sinceStart = -1
  /\ idleFor = 0
  /\ script = "free"
  /\ elapsed = 0

---------------------------------------------------------------------------
(* main loop                                                               *)

\* mutant: sleep is not enabled, sleep_mode() returns at once
SleepModeSkipped ==
  /\ pc = "sleep_mode"
  /\ pc' = "debounce"
  /\ UNCHANGED <<DDRB, buttons, code, sent, value, i, tx, frame, nFull, nRep>>
  /\ UNCHANGED <<PINB, sinceStart, idleFor, script, elapsed>>

\* sleep_mode(): power down
SleepMode ==
  /\ pc = "sleep_mode"
  /\ pc' = "asleep"
  /\ UNCHANGED <<DDRB, buttons, code, sent, value, i, tx, frame, nFull, nRep>>
  /\ NoTick

\* mutant: the handler restarts the main loop
PCINT0_vectRestart(p) == "debounce"

\* EMPTY_INTERRUPT(PCINT0_vect): the handler does nothing; taking the
\* interrupt ends the power-down sleep, and sleep_mode() returns
PCINT0_vect(p) == IF p = "asleep" THEN "debounce" ELSE p

\* the pins going from old to new raise the pin change interrupt, and it is
\* taken: the registers are those main sets up once and never writes again
PcintTaken(old, new) ==
  /\ Bit(SREG, 7) = 1
  /\ Bit(GIMSK, 5) = 1
  /\ \E b \in 0..5 : Bit(PCMSK, b) = 1 /\ Bit(old, b) # Bit(new, b)

\* a pin change: the interrupt is taken at once (interrupts stay enabled)
PinChangeTo(pinb) ==
  /\ PINB' = pinb
  /\ pc' = IF PcintTaken(PINB, pinb) THEN PCINT0_vect(pc) ELSE pc
  /\ idleFor' = 0
  /\ IF pc = "asleep" /\ PcintTaken(PINB, pinb)
       THEN /\ frame' = "none"
            /\ nFull' = 0
            /\ nRep' = 0
            /\ sinceStart' = -1
            /\ tx' = <<>>
       ELSE UNCHANGED <<frame, nFull, nRep, sinceStart, tx>>
  /\ UNCHANGED <<DDRB, buttons, code, sent, value, i>>

\* the environment presses or releases one button
PinChange(b) ==
  /\ script = "free"
  /\ PinChangeTo(IF Bit(PINB, b) = 1 THEN PINB - 2^b ELSE PINB + 2^b)
  /\ UNCHANGED <<script, elapsed>>

\* _delay_ms(1)
Debounce ==
  /\ pc = "debounce"
  /\ Tick(DebounceDelay, FALSE)
  /\ pc' = "scan"
  /\ UNCHANGED <<DDRB, buttons, code, sent, value, i, tx, frame, nFull, nRep>>

\* buttons = ~PINB & 0b00111101; switch (buttons)
Scan ==
  /\ pc = "scan"
  /\ buttons' = ToU8(Pressed(PINB))
  /\ IF KeyOf(buttons') >= 0
       THEN /\ code' = KeyOf(buttons')
            /\ sent' = <<>>
            /\ pc' = "startPulse_on"
       ELSE /\ pc' = "while"
            /\ UNCHANGED <<code, sent>>
  /\ UNCHANGED <<DDRB, value, i, tx, frame, nFull, nRep>>
  /\ NoTick

\* mutant: the loop tests the scan made before the frame, not the pins
WhileStale ==
  /\ pc = "while"
  /\ pc' = IF buttons # 0 THEN "rc_delay40" ELSE "sleep_mode"
  /\ UNCHANGED <<DDRB, buttons, code, sent, value, i, tx, frame, nFull, nRep>>
  /\ UNCHANGED <<PINB, sinceStart, idleFor, script, elapsed>>

\* while (~PINB & 0b00111101)
While ==
  /\ pc = "while"
  /\ pc' = IF Pressed(PINB) # 0 THEN "rc_delay40" ELSE "sleep_mode"
  /\ UNCHANGED <<DDRB, buttons, code, sent, value, i, tx, frame, nFull, nRep>>
  /\ NoTick

---------------------------------------------------------------------------
(* sendCode / sendByte                                                     *)

\* startPulse(): IRon(); _delay_us(9000);
StartPulseOn ==
  /\ pc = "startPulse_on"
  /\ DDRB' = IRon(DDRB)
  /\ Tick(StartBurst, TRUE)
  /\ tx' = << <<1, StartBurst>> >>
  /\ frame' = "full"
  /\ nFull' = nFull + 1
  /\ pc' = "startPulse_off"
  /\ UNCHANGED <<buttons, code, sent, value, i, nRep>>

\* startPulse(): IRoff(); _delay_us(4500); then sendByte(ADDR) is entered
StartPulseOff ==
  /\ pc = "startPulse_off"
  /\ DDRB' = IRoff(DDRB)
  /\ Tick(StartPause, FALSE)
  /\ tx' = Emit(tx, 0, StartPause)
  /\ sent' = <<SendCodeArg(1, code)>>
  /\ value' = SendCodeArg(1, code)
  /\ i' = 8
  /\ pc' = "sb_on"
  /\ UNCHANGED <<buttons, code, frame, nFull, nRep>>

\* mutant: the loop of sendByte gives up when no button is pressed any more
ForStepAbort ==
  LET ni == ToU8(i - 1)
      nv == Shr1(value)
  IN IF Pressed(PINB) = 0
       THEN /\ i' = i
            /\ value' = value
            /\ sent' = sent
            /\ pc' = "stop_on"
       ELSE IF ni # 0
         THEN /\ i' = ni
              /\ value' = nv
              /\ sent' = sent
              /\ pc' = "sb_on"
         ELSE IF Len(sent) < 4
           THEN /\ sent' = Append(sent, SendCodeArg(Len(sent) + 1, code))
                /\ value' = SendCodeArg(Len(sent) + 1, code)
                /\ i' = 8
                /\ pc' = "sb_on"
           ELSE /\ i' = ni
                /\ value' = nv
                /\ sent' = sent
                /\ pc' = "stop_on"

\* for (...; i; i--, value >>= 1): the step and the test; when sendByte
\* returns, sendCode calls it for the next byte or goes on to the stop burst
ForStep ==
  LET ni == ToU8(i - 1)
      nv == Shr1(value)
  IN IF ni # 0
       THEN /\ i' = ni
            /\ value' = nv
            /\ sent' = sent
            /\ pc' = "sb_on"
       ELSE IF Len(sent) < 4
         THEN /\ sent' = Append(sent, SendCodeArg(Len(sent) + 1, code))
              /\ value' = SendCodeArg(Len(sent) + 1, code)
              /\ i' = 8
              /\ pc' = "sb_on"
         ELSE /\ i' = ni
              /\ value' = nv
              /\ sent' = sent
              /\ pc' = "stop_on"

\* sendByte: normalPulse(): IRon(); _delay_us(562);
NormalPulseOn ==
  /\ pc = "sb_on"
  /\ DDRB' = IRon(DDRB)
  /\ Tick(NormalBurst, FALSE)
  /\ tx' = Emit(tx, 1, NormalBurst)
  /\ pc' = "sb_off"
  /\ UNCHANGED <<buttons, code, sent, value, i, frame, nFull, nRep>>

\* sendByte: normalPulse(): IRoff(); _delay_us(557); if (value & 1) ...
NormalPulseOff ==
  /\ pc = "sb_off"
  /\ DDRB' = IRoff(DDRB)
  /\ Tick(NormalPause, FALSE)
  /\ tx' = Emit(tx, 0, NormalPause)
  /\ IF Lsb(value) # 0
       THEN /\ pc' = "sb_bit1"
            /\ UNCHANGED <<sent, value, i>>
       ELSE ForStep
  /\ UNCHANGED <<buttons, code, frame, nFull, nRep>>

\* sendByte: bit1Pause(): _delay_us(1120)
Bit1PauseStep ==
  /\ pc = "sb_bit1"
  /\ Tick(Bit1Pause, FALSE)
  /\ tx' = Emit(tx, 0, Bit1Pause)
  /\ ForStep
  /\ UNCHANGED <<DDRB, buttons, code, frame, nFull, nRep>>

\* sendCode: final normalPulse(): IRon(); _delay_us(562);
StopPulseOn ==
  /\ pc = "stop_on"
  /\ DDRB' = IRon(DDRB)
  /\ Tick(NormalBurst, FALSE)
  /\ tx' = Emit(tx, 1, NormalBurst)
  /\ pc' = "stop_off"
  /\ UNCHANGED <<buttons, code, sent, value, i, frame, nFull, nRep>>

\* sendCode: final normalPulse(): IRoff(); _delay_us(557); return; break
StopPulseOff ==
  /\ pc = "stop_off"
  /\ DDRB' = IRoff(DDRB)
  /\ Tick(NormalPause, FALSE)
  /\ tx' = Emit(tx, 0, NormalPause)
  /\ pc' = "while"
  /\ UNCHANGED <<buttons, code, sent, value, i, frame, nFull, nRep>>

---------------------------------------------------------------------------
(* repeatCode()                                                            *)

\* _delay_ms(40)
RepeatDelay40 ==
  /\ pc = "rc_delay40"
  /\ Tick(RepeatDelayPre, FALSE)
  /\ pc' = "rp_on"
  /\ UNCHANGED <<DDRB, buttons, code, sent, value, i, tx, frame, nFull, nRep>>

\* repeatPulse(): IRon(); _delay_us(9000);
RepeatPulseOn ==
  /\ pc = "rp_on"
  /\ DDRB' = IRon(DDRB)
  /\ Tick(RepeatBurst, TRUE)
  /\ tx' = << <<1, RepeatBurst>> >>
  /\ frame' = "repeat"
  /\ nRep' = Min(nRep + 1, MaxRep)
  /\ pc' = "rp_off"
  /\ UNCHANGED <<buttons, code, sent, value, i, nFull>>

\* repeatPulse(): IRoff(); _delay_us(2250);
RepeatPulseOff ==
  /\ pc = "rp_off"
  /\ DDRB' = IRoff(DDRB)
  /\ Tick(RepeatPause, FALSE)
  /\ tx' = Emit(tx, 0, RepeatPause)
  /\ pc' = "rn_on"
  /\ UNCHANGED <<buttons, code, sent, value, i, frame, nFull, nRep>>

\* repeatCode: normalPulse(): IRon(); _delay_us(562);
RepeatStopOn ==
  /\ pc = "rn_on"
  /\ DDRB' = IRon(DDRB)
  /\ Tick(NormalBurst, FALSE)
  /\ tx' = Emit(tx, 1, NormalBurst)
  /\ pc' = "rn_off"
  /\ UNCHANGED <<buttons, code, sent, value, i, frame, nFull, nRep>>

\* repeatCode: normalPulse(): IRoff(); _delay_us(557);
RepeatStopOff ==
  /\ pc = "rn_off"
  /\ DDRB' = IRoff(DDRB)
  /\ Tick(NormalPause, FALSE)
  /\ tx' = Emit(tx, 0, NormalPause)
  /\ pc' = "rc_delay56"
  /\ UNCHANGED <<buttons, code, sent, value, i, frame, nFull, nRep>>

\* mutant: after a repeat frame the loop goes back to the scan
RepeatDelay56Rescan ==
  /\ pc = "rc_delay56"
  /\ Tick(RepeatDelayPost, FALSE)
  /\ pc' = "scan"
  /\ UNCHANGED <<DDRB, buttons, code, sent, value, i, tx, frame, nFull, nRep>>

\* _delay_ms(56); back to the while test
RepeatDelay56 ==
  /\ pc = "rc_delay56"
  /\ Tick(RepeatDelayPost, FALSE)
  /\ pc' = "while"
  /\ UNCHANGED <<DDRB, buttons, code, sent, value, i, tx, frame, nFull, nRep>>

---------------------------------------------------------------------------
SendCodeStep ==
  \/ StartPulseOn
  \/ StartPulseOff
  \/ NormalPulseOn
  \/ NormalPulseOff
  \/ Bit1PauseStep
  \/ StopPulseOn
  \/ StopPulseOff

RepeatCodeStep ==
  \/ RepeatDelay40
  \/ RepeatPulseOn
  \/ RepeatPulseOff
  \/ RepeatStopOn
  \/ RepeatStopOff
  \/ RepeatDelay56

Program ==
  \/ SleepMode
  \/ Debounce
  \/ Scan
  \/ While
  \/ SendCodeStep
  \/ RepeatCodeStep

\* the firmware with buttons pressed and released at will
Next ==
  \/ Program
  \/ \E b \in ButtonPins : PinChange(b)

Spec == Init /\ [][Next]_vars

---------------------------------------------------------------------------
(* sendCode(c) alone, for every 8-bit c: the encoder as a function of its  *)
(* argument.  It starts at the call and ends at the return.                *)

InitEnc ==
  /\ pc = "startPulse_on"
  /\ PINB = ButtonMask
  /\ DDRB = 0
  /\ buttons = 0
  /\ code \in 0..255
  /\ sent = <<>>
  /\ value = 0
  /\ i = 0
  /\ tx = <<>>
  /\ frame = "none"
  /\ nFull = 0
  /\ nRep = 0
  /\ sinceStart = -1
  /\ idleFor = 0
  /\ script = "free"
  /\ elapsed = 0

NextEnc == SendCodeStep

EncSpec == InitEnc /\ [][NextEnc]_vars

---------------------------------------------------------------------------
(* Scripted buttons: starting asleep with all buttons released, either     *)
(* button 1 (PB0) is pressed and released again while the full frame is    *)
(* being sent, or button 5 (PB5) is pressed and held for HoldTime.         *)

InitScript ==
  /\ pc = "sleep_mode"
  /\ PINB = ButtonMask
  /\ DDRB = 0
  /\ buttons = 0
  /\ code = 0
  /\ sent = <<>>
  /\ value = 0
  /\ i = 0
  /\ tx = <<>>
  /\ frame = "none"
  /\ nFull = 0
  /\ nRep = 0
  /\ sinceStart = -1
  /\ idleFor = 0
  /\ script \in {"tap1", "hold5"}
  /\ elapsed = 0

\* statements of sendCode: the scan is done, the frame has not finished
InSendCode ==
  pc \in {"startPulse_on", "startPulse_off", "sb_on", "sb_off", "sb_bit1",
          "stop_on", "stop_off"}

\* button 1 goes down while the processor sleeps
TapPress ==
  /\ script = "tap1"
  /\ pc = "asleep"
  /\ PinChangeTo(PINB - 2^0)
  /\ script' = "tap1_down"
  /\ UNCHANGED elapsed

\* button 1 goes up again before the frame has finished
TapRelease ==
  /\ script = "tap1_down"
  /\ InSendCode
  /\ PinChangeTo(ButtonMask)
  /\ script' = "tap1_up"
  /\ UNCHANGED elapsed

\* button 5 goes down while the processor sleeps; Tick lets it go
HoldPress ==
  /\ script = "hold5"
  /\ pc = "asleep"
  /\ PinChangeTo(PINB - 2^5)
  /\ script' = "hold5_down"
  /\ elapsed' = 0

NextScript ==
  \/ Program
  \/ TapPress
  \/ TapRelease
  \/ HoldPress

ScriptSpec == InitScript /\ [][NextScript]_vars

---------------------------------------------------------------------------
(* What a receiver sees on the line.                                       *)

Line == tx

\* a data bit is told by the pause after its burst: about 562 us is a 0,
\* about 1687 us is a 1; a decoder puts the threshold halfway
DecodeBit(pause) == IF 2 * pause < 562 + 1687 THEN 0 ELSE 1

\* number of burst-and-pause cells after the start marker
Cells == (Len(Line) - 2) \div 2

\* the n-th data bit on the line (n = 1..Cells)
DataBit(n) == DecodeBit(Line[2 + 2 * n][2])

\* bit k of the j-th byte (j = 1..4) of the NEC frame for command c
FrameBit(c, j, k) ==
  LET byte == CASE j = 1 -> ADDR
                [] j = 2 -> 255 - ADDR
                [] j = 3 -> c
                [] j = 4 -> 255 - c
  IN (byte \div (2^k)) % 2

\* the line holds one complete full frame for command c and nothing else
IsFullFrame(c) ==
  /\ Len(Line) = 2 + 64 + 2
  /\ Line[1] = <<1, 9000>>
  /\ Line[2] = <<0, 4500>>
  /\ \A n \in 1..32 :
       /\ Line[2 * n + 1][1] = 1
       /\ Line[2 * n + 2][1] = 0
       /\ DataBit(n) = FrameBit(c, (n - 1) \div 8 + 1, (n - 1) % 8)
  /\ Line[67] = <<1, 562>>
  /\ Line[68][1] = 0

\* sendCode has returned
Returned == pc = "while" /\ frame = "full"

---------------------------------------------------------------------------
(* C1: every call sendCode(c), for every 8-bit c, puts on the line exactly *)
(* the 9000 us burst and 4500 us pause of the start marker, then the 32    *)
(* data bits of ADDR, ~ADDR, c, ~c in that order, then one 562 us stop     *)
(* burst after which the line stays off.  Checked under EncSpec.           *)
C1_FrameSequence == Returned => IsFullFrame(code)

C1_Witness == Returned /\ code = 165 /\ IsFullFrame(165)

(* C2: the byte sent as the inverse of v is the bitwise complement 255 - v *)
(* of v, bit for bit on the line, and not the arithmetic negation.         *)
(* Checked under EncSpec.                                                  *)
C2_InverseIsComplement ==
  /\ \A n \in {2, 4} :
       n <= Len(sent) =>
         /\ sent[n] = 255 - sent[n - 1]
         /\ sent[n] # (256 - sent[n - 1]) % 256
         /\ \A k \in 0..7 : Bit(sent[n], k) = 1 - Bit(sent[n - 1], k)
  /\ Returned =>
       /\ Len(sent) = 4 /\ sent[1] = ADDR /\ sent[3] = code
       /\ \A k \in 0..7 :
            /\ DataBit(8 + k + 1) = 1 - Bit(ADDR, k)
            /\ DataBit(24 + k + 1) = 1 - Bit(code, k)

C2_Witness == Returned /\ code = 0 /\ sent[4] = 255 /\ sent[2] = 251

(* C3: sendByte(v) emits exactly 8 bit cells, the k-th of them (k = 0..7)  *)
(* encoding bit k of v, least significant bit first; 0b10110000 goes out   *)
(* as 0,0,0,0,1,1,0,1.  Checked under EncSpec.                             *)
C3_LsbFirst ==
  /\ pc = "sb_on" =>
       /\ Cells = 8 * (Len(sent) - 1) + (8 - i)
       /\ \A n \in 1..Cells :
            DataBit(n) = Bit(sent[(n - 1) \div 8 + 1], (n - 1) % 8)
  /\ Returned =>
       /\ Cells = 8 * Len(sent) + 1
       /\ \A j \in 1..4 : \A k \in 0..7 :
            DataBit(8 * (j - 1) + k + 1) = Bit(sent[j], k)
       /\ code = 176 =>
            [n \in 1..8 |-> DataBit(16 + n)] = <<0, 0, 0, 0, 1, 1, 0, 1>>

C3_Witness ==
  /\ Returned
  /\ code = 176
  /\ sent[3] = 176
  /\ [n \in 1..8 |-> DataBit(16 + n)] = <<0, 0, 0, 0, 1, 1, 0, 1>>

---------------------------------------------------------------------------
(* The main loop with free buttons (Spec).                                 *)

\* the scan of this wake cycle has been made
Scanned == pc \notin {"debounce", "scan"}

\* the button pins and the commands the source comments give them
PinKeys == {<<0, KEY1>>, <<2, KEY2>>, <<3, KEY3>>, <<4, KEY4>>, <<5, KEY5>>}

\* the scan read exactly one of the five buttons
SingleButton == \E pk \in PinKeys : buttons = 2^(pk[1])

(* C4: after a wake whose debounced scan reads exactly one pressed button, *)
(* exactly one full frame is sent, with the command mapped to that button  *)
(* (PB0 KEY1, PB2 KEY2, PB3 KEY3, PB4 KEY4, PB5 KEY5); the five (address,  *)
(* command) pairs are pairwise distinct.                                   *)
C4_SingleButtonFrame ==
  /\ Scanned /\ SingleButton =>
       /\ \E pk \in PinKeys : buttons = 2^(pk[1]) /\ code = pk[2]
       /\ nFull = IF pc = "startPulse_on" THEN 0 ELSE 1
       /\ Returned => IsFullFrame(code)
  /\ Cardinality({<<ADDR, pk[2]>> : pk \in PinKeys}) = 5

C4_Witness ==
  /\ Returned
  /\ buttons = 32
  /\ code = KEY5
  /\ nFull = 1
  /\ IsFullFrame(KEY5)

(* C5: a debounced scan that reads none of the five single-button masks    *)
(* (several buttons at once, or none) is followed by no transmission in    *)
(* that wake cycle, neither a full frame nor a repeat frame.               *)
C5_NoTransmission ==
  Scanned /\ ~SingleButton => nFull = 0 /\ nRep = 0

\* a repeat frame begins: repeatPulse() switches the carrier on
RepeatBegins == pc = "rp_on" /\ pc' = "rp_off"

(* C6 as stated: once all button lines have been inactive for longer than  *)
(* the 1 ms debounce interval, no further repeat frame begins.             *)
C6_StopsWithinDebounce ==
  [][RepeatBegins => idleFor <= 1000]_vars

(* C6 as amended: the release is noticed only at the while test, made once *)
(* per repeat period, so a repeat frame may still begin up to 40 ms (the   *)
(* delay before the repeat pulse) after the release; once all button lines *)
(* have been inactive for longer than 40 ms, no further repeat frame       *)
(* begins.                                                                 *)
C6_StopsWithinRepeatDelay ==
  [][RepeatBegins => idleFor <= 40 * 1000]_vars

C6_Witness == pc = "rp_on" /\ Pressed(PINB) = 0 /\ idleFor = 40 * 1000

\* t microseconds are 108 ms to within 1 %
Near108(t) == (t - 108000) * 100 <= 108000 /\ (108000 - t) * 100 <= 108000

\* microseconds the line was driven for the frame on tx
RECURSIVE Duration(_)
Duration(s) == IF s = <<>> THEN 0 ELSE s[1][2] + Duration(Tail(s))

(* C7: the time between the starts of two consecutive repeat frames is one *)
(* fixed interval, 40 ms + the repeat frame + 56 ms, about 108 ms; the     *)
(* time from the start of the full frame to the start of the first repeat  *)
(* frame is about 108 ms too.                                              *)
C7_RepeatCadence ==
  [][RepeatBegins /\ frame # "none" =>
       /\ Near108(sinceStart)
       /\ frame = "repeat" =>
            sinceStart = 40 * 1000 + Duration(tx) + 56 * 1000
       /\ frame = "full" => sinceStart = Duration(tx) + 40 * 1000]_vars

C7_Witness ==
  /\ pc = "rp_on"
  /\ frame = "repeat"
  /\ nRep >= 2
  /\ Pressed(PINB) # 0
  /\ sinceStart = 108369

\* no button is held down
NoButton == \A b \in ButtonPins : Bit(PINB, b) = 1

\* the processor is in power-down sleep
Asleep == pc = "asleep"

(* C8: the loop body starts only when a pin change ends the sleep; asleep, *)
(* nothing runs and the carrier is not touched until a pin changes; a wake *)
(* that finds no button active sends nothing and goes back to sleep; and   *)
(* once no button is active any more the processor ends up asleep and      *)
(* stays so.  Checked under FairSpec.                                      *)
C8_IdleSleeps ==
  /\ [][/\ pc' = "debounce" /\ pc # "debounce" =>
             pc = "asleep" /\ PINB' # PINB
        /\ pc = "asleep" =>
             PINB' # PINB /\ DDRB' = DDRB /\ pc' = "debounce"
        /\ pc = "scan" /\ Pressed(PINB) = 0 /\ pc' # pc =>
             pc' = "while" /\ frame' = "none"
        /\ pc = "while" /\ Pressed(PINB) = 0 /\ pc' # pc =>
             pc' = "sleep_mode" /\ frame' = frame]_vars
  /\ <>[]NoButton => <>[]Asleep

C8_Witness ==
  /\ pc = "asleep"
  /\ Pressed(PINB) = 0
  /\ buttons = 0
  /\ frame = "none"
  /\ idleFor >= 1000

\* the buttons the environment uses under FairSpec: the first LiveButtons
\* of PB0, PB2, PB3, PB4, PB5
LivePins == {<<0, 2, 3, 4, 5>>[n] : n \in 1..LiveButtons}

NextLive ==
  \/ Program
  \/ \E b \in LivePins : PinChange(b)

\* main always runs on unless the processor sleeps
FairSpec == Init /\ [][NextLive]_vars /\ WF_vars(Program)

---------------------------------------------------------------------------
(* The scripted buttons (ScriptSpec).                                      *)

(* C9: starting asleep with all buttons released, button 1 pressed alone   *)
(* and released after the debounced scan and before the full frame has     *)
(* finished gives exactly one full frame (ADDR, ~ADDR, KEY1, ~KEY1) and no *)
(* repeat frame, and then the processor sleeps again.                      *)
C9_TapButton1 ==
  script = "tap1_up" =>
    /\ buttons = 1
    /\ code = KEY1
    /\ nRep = 0
    /\ nFull = IF pc = "startPulse_on" THEN 0 ELSE 1
    /\ InSendCode \/ pc \in {"while", "sleep_mode", "asleep"}
    /\ pc \in {"while", "sleep_mode", "asleep"} =>
         /\ IsFullFrame(KEY1)
         /\ sent = <<ADDR, 255 - ADDR, KEY1, 255 - KEY1>>

C9_Witness ==
  /\ script = "tap1_up"
  /\ pc = "asleep"
  /\ nFull = 1
  /\ nRep = 0
  /\ IsFullFrame(KEY1)

(* C10: starting asleep with all buttons released, button 5 held alone for *)
(* 500 ms gives one full frame with command KEY5, then four repeat frames, *)
(* and no frame of any kind after the release.                             *)
C10_HoldButton5 ==
  /\ script = "hold5_down" => nFull <= 1 /\ nRep <= 4
  /\ script = "hold5_up" =>
       /\ buttons = 32
       /\ code = KEY5
       /\ sent = <<ADDR, 255 - ADDR, KEY5, 255 - KEY5>>
       /\ nFull = 1
       /\ nRep = 4
       /\ pc \in {"while", "sleep_mode", "asleep"}

C10_Witness ==
  /\ script = "hold5_up"
  /\ pc = "asleep"
  /\ elapsed = HoldTime
  /\ nFull = 1
  /\ nRep = 4

---------------------------------------------------------------------------
(* Interrupts and the frame in progress (Spec).                            *)

\* a frame is being sent: its first burst has begun, its last has not ended
InFrame == pc \in {"startPulse_off", "sb_on", "sb_off", "sb_bit1", "stop_on",
                   "stop_off", "rp_off", "rn_on", "rn_off"}

(* C11 as stated: from the start of a full or repeat frame until the loop  *)
(* is back at the sleep, the pin change interrupt cannot be taken: no      *)
(* handler runs between the first and the last burst of a frame.           *)
C11_NoInterruptInFrame ==
  [][InFrame /\ PINB' # PINB => ~PcintTaken(PINB, PINB')]_vars

(* C11 as amended: the pin change interrupt is enabled once at setup and   *)
(* stays enabled; a pin change while main is awake, also in the middle of  *)
(* a frame, is taken at once, but its empty handler changes nothing of the *)
(* program: the statement executed next, the carrier gate, the locals and  *)
(* what the frame has put on the line stay as they are.                    *)
C11_InterruptHarmless ==
  [][PINB' # PINB /\ pc # "asleep" =>
       /\ PcintTaken(PINB, PINB')
       /\ UNCHANGED <<pc, DDRB, buttons, code, sent, value, i, tx, frame,
                      nFull, nRep>>]_vars

C11_Witness ==
  /\ pc = "sb_on"
  /\ Len(sent) = 3
  /\ buttons = 1
  /\ Pressed(PINB) = 4

---------------------------------------------------------------------------
(* Bit timing (EncSpec).                                                   *)

\* t microseconds are within 10 % of half of twice microseconds
Within10(t, twice) ==
  (2 * t - twice) * 10 <= twice /\ (twice - 2 * t) * 10 <= twice

\* the burst and the pause of the n-th data bit on the line
BitBurst(n) == Line[2 * n + 1]
BitPause(n) == Line[2 * n + 2]

(* C12: every data bit has the same 562 us burst whatever its value; the   *)
(* pause after it is about 562 us for a 0 and about 1687 us for a 1, each  *)
(* within 10 % of the NEC 562.5 / 1687.5 us, and the pause of a 1 is the   *)
(* pause of a 0 plus 1120 us.                                              *)
C12_BitTiming ==
  Returned =>
    \A n \in 1..32 :
      LET b == FrameBit(code, (n - 1) \div 8 + 1, (n - 1) % 8)
      IN /\ BitBurst(n) = <<1, 562>>
         /\ BitPause(n)[1] = 0
         /\ b = 0 => BitPause(n)[2] = 557 /\ Within10(BitPause(n)[2], 1125)
         /\ b = 1 => /\ BitPause(n)[2] = 557 + 1120
                     /\ Within10(BitPause(n)[2], 3375)

C12_Witness ==
  /\ Returned
  /\ code = 1
  /\ BitPause(17) = <<0, 1677>>
  /\ BitPause(18) = <<0, 557>>
  /\ BitBurst(17) = BitBurst(18)

---------------------------------------------------------------------------
(* A press and its frame (Spec).                                           *)

(* C13: every press of a single mapped button that starts with all buttons *)
(* released and is then held leads, wherever in the main loop the edge     *)
(* arrives, to a full frame with that button's command while it is held.   *)
(* Asleep, main runs again only after a further pin change, and sleep is   *)
(* entered only after the while test has read all buttons released; so the *)
(* claim requires that the processor is never asleep with exactly one      *)
(* mapped button held down.                                                *)
C13_PressSendsFrame == pc = "asleep" => KeyOf(Pressed(PINB)) < 0

\* a full frame begins: startPulse() of sendCode switches the carrier on
FullBegins == pc = "startPulse_on" /\ pc' = "startPulse_off"

(* C14: in every wake cycle at most one full frame is sent, and it is sent *)
(* before every repeat frame of the cycle: however long buttons are held   *)
(* or change while held, no command frame is sent again before the         *)
(* processor has slept and woken again.                                    *)
C14_OneFullFramePerWake ==
  /\ [](nFull <= 1)
  /\ [][FullBegins => nFull = 0 /\ nRep = 0]_vars
  /\ [][nFull' < nFull => pc = "asleep" /\ pc' = "debounce"]_vars

C14_Witness ==
  /\ pc = "while"
  /\ nFull = 1
  /\ nRep >= 2
  /\ buttons = 1
  /\ Pressed(PINB) = 32

\* the statement just executed was IRon() followed by its burst delay
InBurst == pc \in {"startPulse_off", "sb_off", "stop_off", "rp_off", "rn_off"}

(* C15: DDRB bit 1 is set only inside a 9000 us lead burst or a 562 us bit *)
(* or stop burst; in every other state (asleep, debounce, scan, protocol   *)
(* pauses, the 40 ms and 56 ms repeat delays) it is clear, so the line is  *)
(* inactive whenever the processor enters sleep.                           *)
C15_CarrierOnlyInBurst ==
  /\ Bit(DDRB, 1) = 1 =>
       /\ InBurst
       /\ Len(tx) > 0
       /\ tx[Len(tx)] \in {<<1, 9000>>, <<1, 562>>}
  /\ ~InBurst => Bit(DDRB, 1) = 0
  /\ pc \in {"sleep_mode", "asleep"} => DDRB = 0

C15_Witness ==
  /\ pc = "asleep"
  /\ DDRB = 0
  /\ frame = "repeat"
  /\ nRep >= 1
  /\ Len(tx) > 0

---------------------------------------------------------------------------
(* C16: a full frame that has started always runs to completion, with all  *)
(* 32 data bits and the stop burst, whatever the buttons do meanwhile: a   *)
(* release or other input change during the frame changes nothing of what  *)
(* is sent, and is first seen by the while test that follows the frame.    *)
(* Checked under FairSpec.                                                 *)
C16_FrameRunsToCompletion ==
  /\ [][InSendCode =>
          /\ pc' \in {"startPulse_on", "startPulse_off", "sb_on", "sb_off",
                      "sb_bit1", "stop_on", "stop_off", "while"}
          /\ code' = code
          /\ buttons' = buttons
          /\ PINB' # PINB => pc' = pc /\ tx' = tx /\ sent' = sent]_vars
  /\ [](Returned => IsFullFrame(code) /\ code = KeyOf(buttons))
  /\ [][Returned /\ pc' # pc =>
          pc' = IF NoButton THEN "sleep_mode" ELSE "rc_delay40"]_vars
  /\ InSendCode ~> Returned

C16_Witness ==
  /\ Returned
  /\ buttons = 1
  /\ NoButton
  /\ idleFor >= 10 * 1000
  /\ IsFullFrame(KEY1)

(* C17: the processor is awake as long as some button is held: while a     *)
(* button stays held it never sleeps (and keeps sending repeat frames).    *)
(* The code does not keep this: a button that goes down after the while    *)
(* test read the pins released (or after setup), and before sleep_mode(),  *)
(* raises its pin-change interrupt while the processor is still awake;     *)
(* sleep_mode() then sleeps with the button held, and as long as it stays  *)
(* held no pin changes and nothing is sent.  The other half of the claim,  *)
(* released buttons lead to sleep, is C8_IdleSleeps.                       *)
C17_HeldNeverSleeps == Asleep => NoButton

---------------------------------------------------------------------------
\* the line during a repeat frame, complete after its stop burst
RepeatLine == << <<1, 9000>>, <<0, 2250>>, <<1, 562>>, <<0, 557>> >>

(* C18: every repeat frame is exactly carrier on 9000 us, off 2250 us and  *)
(* one 562 us stop burst after which the line is off: no data bits, no     *)
(* address or command, the same whichever button is held.                  *)
C18_RepeatFrameShape ==
  frame = "repeat" =>
    CASE pc = "rp_off" -> Line = SubSeq(RepeatLine, 1, 1)
      [] pc = "rn_on"  -> Line = SubSeq(RepeatLine, 1, 2)
      [] pc = "rn_off" -> Line = SubSeq(RepeatLine, 1, 3)
      [] OTHER         -> Line = RepeatLine

C18_Witness ==
  /\ pc = "rc_delay56"
  /\ Line = RepeatLine
  /\ buttons = 1
  /\ Pressed(PINB) = 32
  /\ nRep >= 2

---------------------------------------------------------------------------
(* Frame length (EncSpec).                                                 *)

\* the data bits of the frame on the line that are 1
OneBits == {n \in 1..Cells : DataBit(n) = 1}

(* C19: the programmed bursts and pauses of sendCode(c) add up to the same *)
(* time for every 8-bit c, because each byte goes out with its complement: *)
(* every frame has exactly 16 one bits and 16 zero bits.                   *)
C19_FrameDuration ==
  Returned =>
    /\ Cells - 1 = 32
    /\ Cardinality(OneBits) = 16
    /\ Cardinality((1..32) \ OneBits) = 16
    /\ Duration(Line) = 9000 + 4500 + 32 * (562 + 557) + 16 * 1120 + 562 + 557

C19_Witness ==
  /\ Returned
  /\ code = 255
  /\ Duration(Line) = 68347
  /\ {n \in 17..32 : DataBit(n) = 1} = 17..24

---------------------------------------------------------------------------
(* The carrier.                                                            *)

\* the carrier of timer 0 is on the line
CarrierOn == Bit(DDRB, 1) = 1

====
